---- MODULE Spec2Model ----
(***************************************************************************)
(* Model of cmd/mcp-go-indexer/main.go: the startup collection bootstrap,  *)
(* the index_project handler (directory walk, chunk extraction, embedding, *)
(* deterministic identity, upsert, statistics) and the codebase_search     *)
(* handler (embedding, nearest-neighbour query, result formatting).        *)
(*                                                                         *)
(* Strings that the code inspects or concatenates (file names, paths,      *)
(* symbol names, point identities) are sequences of one-character strings, *)
(* so that HasPrefix, Ext and path+":"+funcName are computed, not assumed. *)
(* The embedding service, the vector store and the file system are the     *)
(* environment: their answers are nondeterministic choices. Requests are   *)
(* served one at a time.                                                   *)
(***************************************************************************)
EXTENDS Integers, Sequences, FiniteSets, TLC

\* ------------------------------------------------------------------ bounds

\* Deepest directory nesting of a project (the root is level 1).
MaxDepth == 3

\* index_project invocations served by one process in the server model.
MaxRuns == 2

\* Edits made to the project between index runs in the re-indexing model.
MaxEdits == 2

\* ------------------------------------------------------- program constants

VectorDimension == 4096

CollectionName == "codebase_index"

\* Default of the optional 'limit' argument of codebase_search.
DefaultLimit == 20

\* ------------------------------------------------------------------ strings

\* The characters used by the model's names, in byte order (os.ReadDir
\* returns the entries of a directory sorted by file name).
Alphabet ==
    << ".", "/", ":", "B", "F", "_", "d", "e", "g", "i", "k", "l", "m", "n",
       "o", "p", "r", "s", "t", "u", "v", "x" >>

CharRank(c) == CHOOSE i \in 1..Len(Alphabet) : Alphabet[i] = c

RECURSIVE StrLess(_, _)
StrLess(a, b) ==
    IF b = << >> THEN FALSE
    ELSE IF a = << >> THEN TRUE
    ELSE IF Head(a) /= Head(b) THEN CharRank(Head(a)) < CharRank(Head(b))
    ELSE StrLess(Tail(a), Tail(b))

\* strings.HasPrefix(s, prefix)
HasPrefix(s, prefix) ==
    /\ Len(s) >= Len(prefix)
    /\ SubSeq(s, 1, Len(prefix)) = prefix

\* Directory and file names of the projects.
Pkg == << "p", "k", "g" >>
Git == << ".", "g", "i", "t" >>
Vendor == << "v", "e", "n", "d", "o", "r" >>
NodeModules == << "n", "o", "d", "e", "_", "m", "o", "d", "u", "l", "e", "s" >>
MGo == << "m", ".", "g", "o" >>
NTxt == << "n", ".", "t", "x", "t" >>
GoExt == << ".", "g", "o" >>

Foo == << "F" >>
Bar == << "B" >>

\* Source texts of declarations.
SrcA == << "s", "1" >>
SrcB == << "s", "2" >>
SrcC == << "s", "3" >>

Vendors == << "v", "e", "n", "d", "o", "r", "s" >>

DirNames == { Pkg, Git, Vendor, Vendors, NodeModules }

\* A path is the sequence of its elements' names; the path string joins them
\* with the separator (the root is an absolute path).
RECURSIVE PathString(_)
PathString(p) ==
    IF p = << >> THEN << >>
    ELSE PathString(SubSeq(p, 1, Len(p) - 1)) \o << "/" >> \o p[Len(p)]

\* d.Name(): the last element of the path.
BaseName(p) == p[Len(p)]

\* filepath.Ext: the suffix of the path string beginning at the final dot of
\* its last element, empty when that element has no dot.
RECURSIVE ExtFrom(_, _)
ExtFrom(s, i) ==
    IF i < 1 \/ s[i] = "/" THEN << >>
    ELSE IF s[i] = "." THEN SubSeq(s, i, Len(s))
    ELSE ExtFrom(s, i - 1)

Ext(s) == ExtFrom(s, Len(s))

\* ----------------------------------------------------------------- projects

\* One top-level declaration of a Go file as the parser sees it: the name
\* node's text, the declaration node's text and its 0-based rows.
Decl(name, body, row, endRow) ==
    [ name |-> name, body |-> body, row |-> row, endRow |-> endRow ]

\* What a file of a project may be: a Go file with one function, a Go file
\* with a function and a method, a Go file with two methods of the same name
\* on different receivers, a Go file that cannot be read, and a text file.
FileKinds == { "go", "goTwo", "goSameName", "goUnreadable", "txt" }

FileName(kind) == IF kind = "txt" THEN NTxt ELSE MGo

FileDecls(kind) ==
    CASE kind = "go" -> << Decl(Foo, SrcA, 0, 2) >>
      [] kind = "goTwo" -> << Decl(Foo, SrcA, 0, 2), Decl(Bar, SrcB, 4, 5) >>
      [] kind = "goSameName" ->
            << Decl(Foo, SrcA, 0, 2), Decl(Foo, SrcB, 4, 5) >>
      [] OTHER -> << >>

\* One level of a project: a directory, whether it can be listed, and the
\* one file it holds beside the next level's directory.
Level(dir, listable, file) ==
    [ dir |-> dir, listable |-> listable, file |-> file ]

\* The levels of the projects that are walked.
Levels ==
    { Level(Pkg, TRUE, k) : k \in FileKinds \ { "goTwo" } }
      \cup { Level(d, TRUE, "go") : d \in DirNames }
      \cup { Level(Pkg, FALSE, "go") }

\* The one-directory projects that are served.
ServedLevels ==
    { Level(Pkg, TRUE, k) : k \in FileKinds } \cup { Level(Pkg, FALSE, "go") }

LevelSeqs(n) == UNION { [ 1..k -> Levels ] : k \in 1..n }

DirPath(levels, i) == [ j \in 1..i |-> levels[j].dir ]

FilePath(levels, i) == DirPath(levels, i) \o << FileName(levels[i].file) >>

\* The file system under (and including) the project root: path -> entry.
FileSystem(levels) ==
    LET dirs == { DirPath(levels, i) : i \in 1..Len(levels) }
        files == { FilePath(levels, i) : i \in 1..Len(levels) }
        levelOf(p) == CHOOSE i \in 1..Len(levels) :
                          p = DirPath(levels, i) \/ p = FilePath(levels, i)
    IN  [ p \in dirs \cup files |->
            IF p \in dirs
            THEN [ isDir |-> TRUE, readable |-> levels[levelOf(p)].listable,
                   decls |-> << >> ]
            ELSE [ isDir |-> FALSE,
                   readable |-> levels[levelOf(p)].file /= "goUnreadable",
                   decls |-> FileDecls(levels[levelOf(p)].file) ] ]

\* -------------------------------------------------------------------- state

VARIABLES
    pc,          \* main: "boot", "serving" (ServeStdio) or "fatal" (log.Fatalf)
    collection,  \* the store's collection: whether it exists, its parameters
    store,       \* the collection's points: identity -> [vector, payload]
    fsys,        \* the file system under the project root: path -> entry
    op,          \* the running handler: "idle", "index", "searchEmbed", "searchQuery"
    walk,        \* index_project: entries filepath.WalkDir has still to visit
    cur,         \* index_project: the file being indexed and its query cursor
    stats,       \* index_project: the stats struct
    search,      \* codebase_search: the arguments and the query vector
    cancelled,   \* whether the running handler's context is cancelled
    result,      \* the tool result returned last
    runs,        \* index_project invocations so far
    edits,       \* edits made to the project so far
    hist         \* history: the calls made, and the outcome of earlier runs

vars ==
    << pc, collection, store, fsys, op, walk, cur, stats, search, cancelled,
       result, runs, edits, hist >>

Cosine == "Cosine"

\* The parameters ensureCollection creates the collection with.
ConfiguredParams ==
    [ exists |-> TRUE, size |-> VectorDimension, distance |-> Cosine ]

Absent == [ exists |-> FALSE, size |-> 0, distance |-> "none" ]

\* A collection left by a build for another embedding model.
OtherParams ==
    [ exists |-> TRUE, size |-> VectorDimension - 512, distance |-> Cosine ]

NoFile == [ path |-> << >>, chunks |-> << >>, k |-> 0 ]

ZeroStats == [ Files |-> 0, Chunks |-> 0, Skipped |-> 0, Failed |-> 0 ]

NoSearch == [ limit |-> 0, vector |-> << >> ]

NoResult == [ kind |-> "none" ]

NoRun == [ valid |-> FALSE ]

EmptyStore == [ id \in {} |-> 0 ]

InitHist ==
    [ calls |-> {}, walkErr |-> FALSE, storeAtStart |-> EmptyStore,
      fsysAtStart |-> EmptyStore, last |-> NoRun, prev |-> NoRun,
      answer |-> << >>, ran |-> "none", initial |-> Absent,
      createCalled |-> FALSE ]

\* One call made by a handler: what was called, for which file and chunk,
\* whether it succeeded, and whether the context was already cancelled.
Call(what, path, k, ok) ==
    [ what |-> what, path |-> path, k |-> k, ok |-> ok, late |-> cancelled ]

\* ---------------------------------------------------------------- the walk

\* Mutant of Excluded: the vendor directory is forgotten.
ExcludedButVendor(name) ==
    \/ HasPrefix(name, << "." >>)
    \/ name = NodeModules

\* The directory filter of the walk callback.
Excluded(name) ==
    \/ HasPrefix(name, << "." >>)
    \/ name = NodeModules
    \/ name = Vendor

Children(fs, p) ==
    { q \in DOMAIN fs : Len(q) = Len(p) + 1 /\ SubSeq(q, 1, Len(p)) = p }

\* os.ReadDir: the entries of a directory sorted by file name.
RECURSIVE SortByName(_)
SortByName(paths) ==
    IF paths = {} THEN << >>
    ELSE LET first == CHOOSE q \in paths :
                          \A r \in paths \ {q} : StrLess(BaseName(q), BaseName(r))
         IN  << first >> \o SortByName(paths \ {first})

ReadDir(fs, p) == SortByName(Children(fs, p))

\* -------------------------------------------------------------- the parser

\* One query match: the @name capture's text, the @func capture's text and
\* its rows made 1-based.
Chunk(d) ==
    [ funcName |-> d.name, funcBody |-> d.body,
      startLine |-> d.row + 1, endLine |-> d.endRow + 1 ]

\* The matches of the query over a file's syntax tree, in cursor order.
Matches(decls) == [ i \in 1..Len(decls) |-> Chunk(decls[i]) ]

\* ------------------------------------------------------------ the identity

\* Mutant of UniqueID: the file path is left out of the hashed name.
UniqueIDOfName(path, funcName) == << ":" >> \o funcName

\* Mutant of UniqueID: a fresh identity on every run (uuid.New).
UniqueIDPerRun(path, funcName) ==
    path \o << ":" >> \o funcName \o << ":", runs >>

\* uuid.NewSHA1(uuid.NameSpaceURL, path+":"+funcName): a hash of the name
\* string, modelled by the string it hashes (no two names collide).
UniqueID(path, funcName) == path \o << ":" >> \o funcName

\* The payload index_project stores with a point.
Payload(path, c) ==
    [ file_path |-> path, function |-> c.funcName, line_start |-> c.startLine,
      line_end |-> c.endLine, code_snippet |-> c.funcBody ]

\* The vector the embedding service returns for a text: the configured
\* model's, of VectorDimension components.
Embedding(text) == [ dim |-> VectorDimension, text |-> text ]

\* Whether the store accepts a request: the context is live and the vector
\* has the collection's dimension.
StoreAccepts(vector) ==
    /\ ~cancelled
    /\ collection.exists
    /\ collection.size = vector.dim

\* ------------------------------------------------------------ index_project

\* The report text's four numbers, in the order Sprintf prints them.
Report(st) ==
    [ FilesScanned |-> st.Files, FunctionsIndexed |-> st.Chunks,
      Failed |-> st.Failed, Skipped |-> st.Skipped ]

\* The stats after a file that is not a Go file.
CountSkipped(st) == [ st EXCEPT !.Skipped = @ + 1 ]

\* Mutant of CountFailed: the failure is not counted.
FailureDropped(st) == st

\* The stats after a failed read, a failed embedding or a failed upsert.
CountFailed(st) == [ st EXCEPT !.Failed = @ + 1 ]

\* The stats after a file was read.
CountFile(st) == [ st EXCEPT !.Files = @ + 1 ]

\* The stats after a chunk was upserted.
CountChunk(st) == [ st EXCEPT !.Chunks = @ + 1 ]

\* Mutant of AfterReadError: the read error is returned and ends the walk.
WalkEndsOnReadError(rest) == << >>

\* The entries left to walk after a file could not be read (return nil).
AfterReadError(rest) == rest

\* The matches left after a chunk's embedding or upsert failed (continue).
AfterChunkError(chunks) == Tail(chunks)

\* Mutant of Upsert: the file's other points are deleted on every write.
UpsertReplacingFile(points, id, point) ==
    [ i \in { j \in DOMAIN points :
                points[j].payload.file_path /= point.payload.file_path }
             \cup {id} |-> IF i = id THEN point ELSE points[i] ]

\* The store after a successful upsert of one point.
Upsert(points, id, point) ==
    [ i \in DOMAIN points \cup {id} |-> IF i = id THEN point ELSE points[i] ]

Log(call) == [ hist EXCEPT !.calls = @ \cup {call} ]

\* The handler is entered with a 'path' argument: the stats are zeroed and
\* the walk starts at the root.
IndexBegin(root) ==
    /\ pc = "serving"
    /\ op = "idle"
    /\ op' = "index"
    /\ walk' = << root >>
    /\ cur' = NoFile
    /\ stats' = ZeroStats
    /\ cancelled' = FALSE
    /\ result' = NoResult
    /\ runs' = runs + 1
    /\ hist' = [ hist EXCEPT !.calls = {}, !.walkErr = FALSE, !.answer = << >>,
                             !.ran = "index", !.storeAtStart = store,
                             !.fsysAtStart = fsys ]
    /\ UNCHANGED << pc, collection, store, fsys, search, edits >>

\* The root of the project: the one path of a single element.
Root == CHOOSE p \in DOMAIN fsys : Len(p) = 1

\* index_project without its required 'path': an error result, nothing else.
IndexBadArgs ==
    /\ pc = "serving"
    /\ op = "idle"
    /\ result' = [ kind |-> "error", text |-> << "Path required" >> ]
    /\ hist' = [ hist EXCEPT !.calls = {}, !.answer = << >>, !.ran = "badArgs" ]
    /\ UNCHANGED << pc, collection, store, fsys, op, walk, cur, stats, search,
                    cancelled, runs, edits >>

\* One call of the walk callback (two for a directory that cannot be listed).
WalkEntry ==
    /\ op = "index"
    /\ cur.chunks = << >>
    /\ walk /= << >>
    /\ LET p == Head(walk)
           e == fsys[p]
       IN  IF e.isDir
           THEN /\ IF Excluded(BaseName(p))
                   THEN \* filepath.SkipDir: the directory is not listed
                        /\ walk' = Tail(walk)
                        /\ hist' = Log(Call("prune", p, 0, TRUE))
                   ELSE IF ~e.readable
                   THEN \* the callback returns the error: the walk ends
                        /\ walk' = << >>
                        /\ hist' = [ Log(Call("list", p, 0, FALSE))
                                       EXCEPT !.walkErr = TRUE ]
                   ELSE /\ walk' = ReadDir(fsys, p) \o Tail(walk)
                        /\ hist' = Log(Call("list", p, 0, TRUE))
                /\ UNCHANGED << cur, stats >>
           ELSE IF Ext(PathString(p)) /= GoExt
           THEN /\ stats' = CountSkipped(stats)
                /\ walk' = Tail(walk)
                /\ hist' = Log(Call("skip", p, 0, TRUE))
                /\ UNCHANGED cur
           ELSE IF ~e.readable
           THEN /\ stats' = CountFailed(stats)
                /\ walk' = AfterReadError(Tail(walk))
                /\ hist' = Log(Call("read", p, 0, FALSE))
                /\ UNCHANGED cur
           ELSE /\ stats' = CountFile(stats)
                /\ walk' = Tail(walk)
                /\ cur' = [ path |-> p, chunks |-> Matches(e.decls), k |-> 1 ]
                /\ hist' = Log(Call("read", p, 0, TRUE))
    /\ UNCHANGED << pc, collection, store, fsys, op, search, cancelled, result,
                    runs, edits >>

\* One iteration of the match loop: embed the chunk, derive its identity,
\* upsert the point, count the outcome.
IndexChunk ==
    /\ op = "index"
    /\ cur.chunks /= << >>
    /\ LET c == Head(cur.chunks)
           path == PathString(cur.path)
           embedding == Embedding(c.funcBody)
           id == UniqueID(path, c.funcName)
           point == [ vector |-> embedding, payload |-> Payload(path, c) ]
       IN  \E embedOk \in BOOLEAN, storeOk \in BOOLEAN :
             IF ~embedOk
             THEN /\ stats' = CountFailed(stats)
                  /\ hist' = Log(Call("embed", cur.path, cur.k, FALSE))
                  /\ cur' = [ cur EXCEPT !.chunks = AfterChunkError(@),
                                         !.k = @ + 1 ]
                  /\ UNCHANGED store
             ELSE IF ~(storeOk /\ StoreAccepts(embedding))
             THEN /\ stats' = CountFailed(stats)
                  /\ hist' = [ hist EXCEPT !.calls = @ \cup
                                 { Call("embed", cur.path, cur.k, TRUE),
                                   Call("upsert", cur.path, cur.k, FALSE) } ]
                  /\ cur' = [ cur EXCEPT !.chunks = AfterChunkError(@),
                                         !.k = @ + 1 ]
                  /\ UNCHANGED store
             ELSE /\ stats' = CountChunk(stats)
                  /\ store' = Upsert(store, id, point)
                  /\ hist' = [ hist EXCEPT !.calls = @ \cup
                                 { Call("embed", cur.path, cur.k, TRUE),
                                   Call("upsert", cur.path, cur.k, TRUE) } ]
                  /\ cur' = [ cur EXCEPT !.chunks = Tail(@), !.k = @ + 1 ]
    /\ UNCHANGED << pc, collection, fsys, op, walk, search, cancelled, result,
                    runs, edits >>

\* What is remembered of a finished run.
RunSummary ==
    [ valid |-> TRUE, fsys |-> hist.fsysAtStart, ids |-> DOMAIN store,
      chunks |-> stats.Chunks,
      clean |-> \A c \in hist.calls : c.what \in {"embed", "upsert"} => c.ok ]

\* WalkDir has returned (its error is dropped): the report is the result.
IndexFinish ==
    /\ op = "index"
    /\ walk = << >>
    /\ cur.chunks = << >>
    /\ op' = "idle"
    /\ result' = [ kind |-> "report", report |-> Report(stats) ]
    /\ hist' = [ hist EXCEPT !.prev = hist.last, !.last = RunSummary ]
    /\ UNCHANGED << pc, collection, store, fsys, walk, cur, stats, search,
                    cancelled, runs, edits >>

\* index_project has returned its report.
IndexDone == op = "idle" /\ result.kind = "report"

\* ------------------------------------------------- the walk model (one run)

\* Any project up to MaxDepth levels, indexed once into an empty collection
\* by a serving process.
InitWalk ==
    /\ pc = "serving"
    /\ collection = ConfiguredParams
    /\ store = EmptyStore
    /\ \E levels \in LevelSeqs(MaxDepth) : fsys = FileSystem(levels)
    /\ op = "idle"
    /\ walk = << >>
    /\ cur = NoFile
    /\ stats = ZeroStats
    /\ search = NoSearch
    /\ cancelled = FALSE
    /\ result = NoResult
    /\ runs = 0
    /\ edits = 0
    /\ hist = [ InitHist EXCEPT !.initial = ConfiguredParams ]

FirstIndex == runs = 0 /\ IndexBegin(Root)

NextWalk == FirstIndex \/ WalkEntry \/ IndexChunk \/ IndexFinish

SpecWalk == InitWalk /\ [][NextWalk]_vars

\* ---------------------------------------------------------- ensureCollection

\* Mutant of MustCreate: CreateCollection is called without the check.
CreateAlways(exists) == TRUE

\* Whether ensureCollection calls CreateCollection, given CollectionExists.
MustCreate(exists) == ~exists

\* main up to ServeStdio: ensureCollection on the store as it is found. A
\* failed existence check or a failed creation ends the process.
EnsureCollection ==
    /\ pc = "boot"
    /\ \E checkOk \in BOOLEAN, createOk \in BOOLEAN :
         IF ~checkOk
         THEN /\ pc' = "fatal"
              /\ UNCHANGED << collection, hist >>
         ELSE IF ~MustCreate(collection.exists)
         THEN /\ pc' = "serving"
              /\ UNCHANGED << collection, hist >>
         ELSE \* the store refuses to create a collection that exists
              IF createOk /\ ~collection.exists
              THEN /\ pc' = "serving"
                   /\ collection' = ConfiguredParams
                   /\ hist' = [ hist EXCEPT !.createCalled = TRUE ]
              ELSE /\ pc' = "fatal"
                   /\ hist' = [ hist EXCEPT !.createCalled = TRUE ]
                   /\ UNCHANGED collection
    /\ UNCHANGED << store, fsys, op, walk, cur, stats, search, cancelled,
                    result, runs, edits >>

\* ------------------------------------------------------------ codebase_search

\* Value.GetStringValue of payload[key]: empty for a key the payload lacks.
PayloadString(payload, key) ==
    IF key \in DOMAIN payload THEN payload[key] ELSE << >>

\* Value.GetIntegerValue of payload[key]: zero for a key the payload lacks.
PayloadInt(payload, key) ==
    IF key \in DOMAIN payload THEN payload[key] ELSE 0

\* %.3f of a score given in ten-thousandths: thousandths, rounded.
Round3(score) == (score + 5) \div 10

\* The key the line number is read from.
LineKey == "line_number"

\* One result's block: the pieces Sprintf joins.
FormatBlock(point) ==
    << "File: ", PayloadString(point.payload, "file_path"),
       " (Line: ", PayloadInt(point.payload, LineKey),
       ") Score: ", Round3(point.score),
       " go: ", PayloadString(point.payload, "code_snippet"),
       " --- " >>

RECURSIVE FormatResults(_)
FormatResults(points) ==
    IF points = << >> THEN << >>
    ELSE FormatBlock(Head(points)) \o FormatResults(Tail(points))

Sentinel == << "No relevant code found." >>

\* Mutant of ResponseText: no sentinel, the empty text is returned.
ResponseAsIs(text) == text

\* The response text: the blocks, or the sentinel when there are none.
ResponseText(text) == IF text = << >> THEN Sentinel ELSE text

\* Similarity scores the store may report, in ten-thousandths.
Scores == { 8756, 5004 }

Min(a, b) == IF a < b THEN a ELSE b

\* The answers the store may give to a query for up to 'limit' neighbours:
\* that many of its points (all, if it holds fewer), each once, by descending
\* score, with their payloads.
Answers(limit) ==
    LET n == Min(limit, Cardinality(DOMAIN store))
        picks == { f \in [ 1..n -> (DOMAIN store) \X Scores ] :
                     /\ \A i, j \in 1..n : i < j => f[i][1] /= f[j][1]
                     /\ \A i, j \in 1..n : i < j => f[i][2] >= f[j][2] }
    IN  { [ i \in 1..n |-> [ id |-> f[i][1], score |-> f[i][2],
                             payload |-> store[f[i][1]].payload ] ] : f \in picks }

\* The handler is entered with a 'query' and a limit (20 when not given).
SearchBegin ==
    /\ pc = "serving"
    /\ op = "idle"
    /\ \E limit \in { 1, DefaultLimit } :
         search' = [ limit |-> limit, vector |-> << >> ]
    /\ op' = "searchEmbed"
    /\ cancelled' = FALSE
    /\ result' = NoResult
    /\ hist' = [ hist EXCEPT !.calls = {}, !.answer = << >>, !.ran = "search" ]
    /\ UNCHANGED << pc, collection, store, fsys, walk, cur, stats, runs, edits >>

\* codebase_search without a string 'query': an error result, nothing else.
SearchBadArgs ==
    /\ pc = "serving"
    /\ op = "idle"
    /\ result' = [ kind |-> "error", text |-> << "Invalid or missing query" >> ]
    /\ hist' = [ hist EXCEPT !.calls = {}, !.answer = << >>, !.ran = "badArgs" ]
    /\ UNCHANGED << pc, collection, store, fsys, op, walk, cur, stats, search,
                    cancelled, runs, edits >>

\* Step C of the handler: the query is embedded; a failure is the result.
SearchEmbed ==
    /\ op = "searchEmbed"
    /\ \E embedOk \in BOOLEAN :
         IF embedOk
         THEN /\ search' = [ search EXCEPT !.vector = Embedding(<< "q" >>) ]
              /\ op' = "searchQuery"
              /\ hist' = Log(Call("embed", << >>, 0, TRUE))
              /\ UNCHANGED result
         ELSE /\ result' = [ kind |-> "error", text |-> << "Ollama error" >> ]
              /\ op' = "idle"
              /\ hist' = Log(Call("embed", << >>, 0, FALSE))
              /\ UNCHANGED search
    /\ UNCHANGED << pc, collection, store, fsys, walk, cur, stats, cancelled,
                    runs, edits >>

\* Steps D and E of the handler: the store is queried, its answer formatted.
SearchQuery ==
    /\ op = "searchQuery"
    /\ \E storeOk \in BOOLEAN :
         IF storeOk /\ StoreAccepts(search.vector)
         THEN \E answer \in Answers(search.limit) :
                /\ result' = [ kind |-> "text",
                               text |-> ResponseText(FormatResults(answer)) ]
                /\ hist' = [ Log(Call("query", << >>, 0, TRUE))
                               EXCEPT !.answer = answer ]
         ELSE /\ result' = [ kind |-> "error", text |-> << "Qdrant search error" >> ]
              /\ hist' = Log(Call("query", << >>, 0, FALSE))
    /\ op' = "idle"
    /\ UNCHANGED << pc, collection, store, fsys, walk, cur, stats, search,
                    cancelled, runs, edits >>

\* ------------------------------------------------------------- environment

\* The caller cancels the running request's context.
Cancel ==
    /\ op /= "idle"
    /\ ~cancelled
    /\ cancelled' = TRUE
    /\ UNCHANGED << pc, collection, store, fsys, op, walk, cur, stats, search,
                    result, runs, edits, hist >>

\* ------------------------------------------------------- the server model

\* A process started against a store whose collection is absent, was created
\* by this build, or was created with another dimension; it then serves
\* index_project and codebase_search requests one at a time.
Init ==
    /\ pc = "boot"
    /\ collection \in { Absent, ConfiguredParams, OtherParams }
    /\ store = EmptyStore
    /\ \E level \in ServedLevels : fsys = FileSystem(<< level >>)
    /\ op = "idle"
    /\ walk = << >>
    /\ cur = NoFile
    /\ stats = ZeroStats
    /\ search = NoSearch
    /\ cancelled = FALSE
    /\ result = NoResult
    /\ runs = 0
    /\ edits = 0
    /\ hist = [ InitHist EXCEPT !.initial = collection ]

IndexProject == runs < MaxRuns /\ IndexBegin(Root)

Next ==
    \/ EnsureCollection
    \/ IndexProject
    \/ IndexBadArgs
    \/ WalkEntry
    \/ IndexChunk
    \/ IndexFinish
    \/ SearchBegin
    \/ SearchBadArgs
    \/ SearchEmbed
    \/ SearchQuery
    \/ Cancel

Spec == Init /\ [][Next]_vars

\* ------------------------------------------------------------------ claims

\* What the properties say of a project is computed from the file system,
\* independently of the handler's operators.

Files == { p \in DOMAIN fsys : ~fsys[p].isDir }

ExcludedName(name) ==
    name[1] = "." \/ name = NodeModules \/ name = Vendor

\* The path lies beneath a directory of an excluded name.
Beneath(p) == \E i \in 1..(Len(p) - 1) : ExcludedName(p[i])

IsGoFile(p) ==
    LET n == BaseName(p)
    IN  Len(n) >= 3 /\ SubSeq(n, Len(n) - 2, Len(n)) = GoExt

CallsOf(what) == { c \in hist.calls : c.what = what }

Succeeded(what) == { c \in CallsOf(what) : c.ok }

FailedCalls(what) == { c \in CallsOf(what) : ~c.ok }

\* No embedding and no upsert of the run failed.
CleanRun == \A c \in CallsOf("embed") \cup CallsOf("upsert") : c.ok

RECURSIVE DeclCount(_)
DeclCount(paths) ==
    IF paths = {} THEN 0
    ELSE LET p == CHOOSE q \in paths : TRUE
         IN  Len(fsys[p].decls) + DeclCount(paths \ {p})

\* The files the run read.
Scanned == { c.path : c \in Succeeded("read") }

\* The points whose payload names the file and the symbol.
PointsOf(points, path, name) ==
    { id \in DOMAIN points :
        /\ points[id].payload.file_path = PathString(path)
        /\ points[id].payload.function = name }

\* C7: no entry beneath a directory named ".*", "node_modules" or "vendor"
\* is listed, skipped, read, embedded or upserted, at any depth, and no such
\* directory is listed; every file beneath no such directory is visited
\* once the walk has run to its end.
TraversalExclusion ==
    /\ \A c \in hist.calls :
         /\ c.what \in {"list", "skip", "read", "embed", "upsert"}
              => ~Beneath(c.path)
         /\ c.what = "list" => ~ExcludedName(BaseName(c.path))
    /\ \A p \in Files : Beneath(p) => \A name \in { Foo, Bar } :
                                          PointsOf(store, p, name) = {}
    /\ IndexDone /\ ~hist.walkErr =>
         \A p \in Files : ~Beneath(p) =>
             \E c \in CallsOf("skip") \cup CallsOf("read") : c.path = p

\* C7's case: a readable Go file in a plain directory inside an excluded
\* directory of a plain root was left alone by a run that pruned there and
\* read the root's file.
WitnessTraversalExclusion ==
    /\ IndexDone
    /\ \E p \in Files :
         /\ Len(p) = 4
         /\ ~ExcludedName(p[1]) /\ ExcludedName(p[2]) /\ ~ExcludedName(p[3])
         /\ IsGoFile(p) /\ fsys[p].readable
         /\ \E c \in CallsOf("prune") : c.path = SubSeq(p, 1, 2)
    /\ stats.Files = 1

\* C8: every visited file is counted once (Skipped and never read if it is
\* not a Go file, Failed if it cannot be read, Files otherwise), every chunk
\* once (Chunks or Failed), and Chunks is the number of successful upserts.
StatsConservation ==
    hist.ran = "index" =>
      /\ stats.Skipped = Cardinality(CallsOf("skip"))
      /\ \A c \in CallsOf("skip") :
           ~IsGoFile(c.path) /\ \A r \in CallsOf("read") : r.path /= c.path
      /\ \A c \in CallsOf("read") :
           IsGoFile(c.path) /\ c.ok = fsys[c.path].readable
      /\ stats.Files = Cardinality(Succeeded("read"))
      /\ stats.Chunks = Cardinality(Succeeded("upsert"))
      /\ stats.Failed = Cardinality(FailedCalls("read"))
                          + Cardinality(FailedCalls("embed"))
                          + Cardinality(FailedCalls("upsert"))
      /\ IndexDone =>
           /\ stats.Chunks + stats.Failed
                = DeclCount(Scanned) + Cardinality(FailedCalls("read"))
           /\ result.report =
                [ FilesScanned |-> stats.Files, FunctionsIndexed |-> stats.Chunks,
                  Failed |-> stats.Failed, Skipped |-> stats.Skipped ]
      /\ IndexDone /\ ~hist.walkErr =>
           LET seen == { p \in Files : ~Beneath(p) }
           IN  /\ stats.Skipped = Cardinality({ p \in seen : ~IsGoFile(p) })
               /\ stats.Files =
                    Cardinality({ p \in seen : IsGoFile(p) /\ fsys[p].readable })
               /\ stats.Chunks + stats.Failed =
                    DeclCount({ p \in seen : IsGoFile(p) /\ fsys[p].readable })
                    + Cardinality({ p \in seen :
                                      IsGoFile(p) /\ ~fsys[p].readable })

\* C8's case: a finished run that skipped a file, could not read another,
\* lost one chunk of a third to the upsert and indexed the other.
WitnessStatsConservation ==
    /\ IndexDone
    /\ stats.Skipped = 1
    /\ Cardinality(FailedCalls("read")) = 1
    /\ Cardinality(FailedCalls("upsert")) = 1
    /\ stats.Failed = 2
    /\ stats.Chunks = 1

\* C2: when the walk itself is not ended by a directory error, a run with
\* unreadable files, failed embeddings and failed upserts still reads every
\* other Go file, embeds every chunk of it and upserts every embedded chunk;
\* Files Scanned is the number of Go files less the unreadable ones, and
\* every failure is in the report's Failed count.
FailureIsolation ==
    IndexDone /\ ~hist.walkErr =>
      LET goFiles == { p \in Files : ~Beneath(p) /\ IsGoFile(p) }
          unreadable == { p \in goFiles : ~fsys[p].readable }
      IN  /\ \A p \in goFiles \ unreadable :
               /\ \E c \in Succeeded("read") : c.path = p
               /\ \A k \in 1..Len(fsys[p].decls) :
                    /\ \E c \in CallsOf("embed") : c.path = p /\ c.k = k
                    /\ \A c \in Succeeded("embed") : c.path = p /\ c.k = k =>
                         \E u \in CallsOf("upsert") : u.path = p /\ u.k = k
                    /\ \A u \in Succeeded("upsert") : u.path = p /\ u.k = k =>
                         PointsOf(store, p, fsys[p].decls[k].name) /= {}
          /\ result.report.FilesScanned
               = Cardinality(goFiles) - Cardinality(unreadable)
          /\ result.report.Failed
               = Cardinality(unreadable) + Cardinality(FailedCalls("embed"))
                   + Cardinality(FailedCalls("upsert"))
          /\ CleanRun => result.report.FunctionsIndexed
                           = DeclCount(goFiles \ unreadable)

\* C2's case: of three Go files exactly one, the first walked, is unreadable;
\* in a later file a chunk's embedding failed and the next chunk was indexed,
\* and an upsert failed too.
WitnessFailureIsolation ==
    /\ IndexDone /\ ~hist.walkErr
    /\ Cardinality({ p \in Files : ~Beneath(p) /\ IsGoFile(p) }) = 3
    /\ Cardinality(FailedCalls("read")) = 1
    /\ \E c \in FailedCalls("read") : Len(c.path) = 2
    /\ result.report.FilesScanned = 2
    /\ \E e \in FailedCalls("embed") :
         \E u \in Succeeded("upsert") : u.path = e.path /\ u.k > e.k
    /\ FailedCalls("upsert") /= {}

\* C10: after a run without failed embeddings and upserts on an empty store,
\* the store holds one point for each distinct (file path, symbol name) of
\* the extracted chunks: at most Functions Indexed, fewer when a file holds
\* a name twice, and each point's payload is that of the last such chunk.
IdentityCollision ==
    IndexDone /\ DOMAIN hist.storeAtStart = {} /\ CleanRun =>
      LET real == UNION { { << p, fsys[p].decls[k].name >> :
                              k \in 1..Len(fsys[p].decls) } : p \in Scanned }
          last(pr) == LET ds == fsys[pr[1]].decls
                      IN  ds[CHOOSE k \in 1..Len(ds) :
                                /\ ds[k].name = pr[2]
                                /\ \A j \in (k + 1)..Len(ds) : ds[j].name /= pr[2]]
      IN  /\ Cardinality(DOMAIN store) = Cardinality(real)
          /\ Cardinality(DOMAIN store) <= result.report.FunctionsIndexed
          /\ (\E p \in Scanned : \E i, j \in 1..Len(fsys[p].decls) :
                  i < j /\ fsys[p].decls[i].name = fsys[p].decls[j].name)
               => Cardinality(DOMAIN store) < result.report.FunctionsIndexed
          /\ \A pr \in real :
               /\ Cardinality(PointsOf(store, pr[1], pr[2])) = 1
               /\ \A id \in PointsOf(store, pr[1], pr[2]) :
                    /\ store[id].payload.code_snippet = last(pr).body
                    /\ store[id].payload.line_start = last(pr).row + 1
                    /\ store[id].payload.line_end = last(pr).endRow + 1

\* C10's case: a clean run over a file with one name twice and another file
\* left fewer points than Functions Indexed.
WitnessIdentityCollision ==
    /\ IndexDone /\ DOMAIN hist.storeAtStart = {} /\ CleanRun
    /\ Cardinality(DOMAIN store) >= 3
    /\ Cardinality(DOMAIN store) < result.report.FunctionsIndexed

\* ------------------------------------------------ the re-indexing model

Zed == << "Z" >>

GoFiles == { p \in DOMAIN fsys : ~fsys[p].isDir /\ fsys[p].decls /= << >> }

\* Between two index runs the project may be edited. A search neither reads
\* nor changes the project, so an edit after a search leads where the edit
\* before it leads: the edits are taken first.
MayEdit ==
    /\ pc = "serving"
    /\ IndexDone
    /\ edits < MaxEdits

EditFrame ==
    /\ edits' = edits + 1
    /\ UNCHANGED << pc, collection, store, op, walk, cur, stats, search,
                    cancelled, result, runs, hist >>

\* A declaration is renamed.
RenameSymbol ==
    /\ MayEdit
    /\ \E p \in GoFiles : \E k \in 1..Len(fsys[p].decls) :
         /\ fsys[p].decls[k].name /= Zed
         /\ fsys' = [ fsys EXCEPT ![p].decls[k].name = Zed ]
    /\ EditFrame

\* A declaration's body is rewritten.
ChangeBody ==
    /\ MayEdit
    /\ \E p \in GoFiles : \E k \in 1..Len(fsys[p].decls) :
         /\ fsys[p].decls[k].body /= SrcC
         /\ fsys' = [ fsys EXCEPT ![p].decls[k].body = SrcC ]
    /\ EditFrame

Without(seq, k) == SubSeq(seq, 1, k - 1) \o SubSeq(seq, k + 1, Len(seq))

\* A declaration is moved to the end of another file.
MoveSymbol ==
    /\ MayEdit
    /\ \E p \in GoFiles, q \in GoFiles : \E k \in 1..Len(fsys[p].decls) :
         /\ p /= q
         /\ LET d == fsys[p].decls[k]
                after == fsys[q].decls[Len(fsys[q].decls)].endRow + 2
                moved == Decl(d.name, d.body, after, after + d.endRow - d.row)
            IN  fsys' = [ fsys EXCEPT ![p].decls = Without(@, k),
                                      ![q].decls = Append(@, moved) ]
    /\ EditFrame

\* A serving process with an empty collection and a project of two Go files.
InitEdit ==
    /\ pc = "serving"
    /\ collection = ConfiguredParams
    /\ store = EmptyStore
    /\ fsys = FileSystem(<< Level(Pkg, TRUE, "go"), Level(Pkg, TRUE, "go") >>)
    /\ op = "idle"
    /\ walk = << >>
    /\ cur = NoFile
    /\ stats = ZeroStats
    /\ search = NoSearch
    /\ cancelled = FALSE
    /\ result = NoResult
    /\ runs = 0
    /\ edits = 0
    /\ hist = [ InitHist EXCEPT !.initial = ConfiguredParams ]

NextEdit ==
    \/ IndexProject
    \/ WalkEntry
    \/ IndexChunk
    \/ IndexFinish
    \/ SearchBegin
    \/ SearchEmbed
    \/ SearchQuery
    \/ RenameSymbol
    \/ ChangeBody
    \/ MoveSymbol

SpecEdit == InitEdit /\ [][NextEdit]_vars

\* ------------------------------------------------------ claims (the server)

SearchDone == op = "idle" /\ hist.ran = "search"

SearchShowsStoredFields ==
    SearchDone /\ result.kind = "text" /\ hist.answer /= << >> =>
      /\ Len(result.text) = 9 * Len(hist.answer)
      /\ \A i \in 1..Len(hist.answer) :
           LET block == SubSeq(result.text, 9 * (i - 1) + 1, 9 * i)
               stored == store[hist.answer[i].id].payload
               shown == (hist.answer[i].score + 5) \div 10
           IN  /\ block[2] = stored.file_path
               /\ block[4] = stored.line_start
               /\ block[6] = shown
               /\ block[8] = stored.code_snippet

\* C4: a search with a query ends in an error exactly when the embedding or
\* the store query failed (no query after a failed embedding), in the
\* sentinel exactly when the query succeeded without results, and else in
\* one block per result; its text is never empty.
SearchOutcomes ==
    SearchDone =>
      LET embedFailed == FailedCalls("embed") /= {}
          queryFailed == FailedCalls("query") /= {}
          queryOk == Succeeded("query") /= {}
      IN  /\ result.kind \in { "error", "text" }
          /\ result.kind = "error" <=> (embedFailed \/ queryFailed)
          /\ embedFailed => CallsOf("query") = {}
          /\ (result.kind = "text" /\ result.text = Sentinel)
               <=> (queryOk /\ hist.answer = << >>)
          /\ result.kind = "text" /\ result.text /= Sentinel =>
               /\ hist.answer /= << >>
               /\ Len(result.text) = 9 * Len(hist.answer)
               /\ \A i \in 1..Len(hist.answer) :
                    result.text[9 * (i - 1) + 1] = "File: "
          /\ result.text /= << >>
          /\ queryOk /\ DOMAIN store = {} => hist.answer = << >>

\* C4's case: the sentinel from the empty collection this process created.
WitnessSearchOutcomes ==
    /\ SearchDone
    /\ hist.createCalled /\ DOMAIN store = {}
    /\ result.kind = "text" /\ result.text = Sentinel

\* Nothing was served before ensureCollection returned.
ServedAfterBoot ==
    (op /= "idle" \/ runs > 0 \/ hist.ran /= "none") => pc = "serving"

\* C5 as stated: once ensureCollection has returned, the collection exists
\* with the configured dimension and metric, whatever the store held before.
CollectionAsConfigured ==
    /\ pc = "serving" => collection = ConfiguredParams
    /\ hist.createCalled => ~hist.initial.exists
    /\ ServedAfterBoot

\* C5, amended: the collection exists; it has the configured parameters if
\* it was absent (it was then created), and is the collection found, with
\* the parameters it had, if it was present (nothing was created).
CollectionEnsured ==
    /\ pc = "serving" =>
         /\ collection.exists
         /\ IF hist.initial.exists
            THEN collection = hist.initial /\ ~hist.createCalled
            ELSE collection = ConfiguredParams /\ hist.createCalled
    /\ hist.createCalled => ~hist.initial.exists
    /\ ServedAfterBoot

\* C5's case: a collection of another dimension was found and kept, and a
\* run was then served.
WitnessCollectionEnsured ==
    /\ pc = "serving"
    /\ hist.initial = OtherParams
    /\ collection = OtherParams
    /\ IndexDone

\* C6: no embedding, upsert or query call is made once the context of the
\* running index or search operation is cancelled.
NoCallAfterCancel ==
    \A c \in hist.calls :
        c.what \in { "embed", "upsert", "query" } => ~c.late

\* C9: the store never loses a point. A step that changes it is the upsert
\* of the chunk at hand: every point of another (file path, symbol name)
\* stays as it was, the chunk's pair has exactly one point afterwards, with
\* the chunk's source text, and that point is new exactly when no point had
\* the pair.
StalePointsKept ==
    [][ /\ DOMAIN store \subseteq DOMAIN store'
        /\ store' /= store =>
             /\ op = "index" /\ cur.chunks /= << >>
             /\ LET c == Head(cur.chunks)
                    old == PointsOf(store, cur.path, c.funcName)
                    new == PointsOf(store', cur.path, c.funcName)
                IN  /\ \A id \in (DOMAIN store) \ old : store'[id] = store[id]
                    /\ Cardinality(new) = 1
                    /\ \A id \in new :
                         store'[id].payload.code_snippet = c.funcBody
                    /\ (DOMAIN store' /= DOMAIN store) <=> (old = {})
      ]_vars

\* The point's file no longer declares the point's symbol.
Stale(point) ==
    \A p \in GoFiles :
        PathString(p) = point.payload.file_path =>
            \A k \in 1..Len(fsys[p].decls) :
                fsys[p].decls[k].name /= point.payload.function

\* C9's case: after a rename and a rewrite the next run left the renamed
\* symbol's old point as it was, made a new point, and overwrote the
\* rewritten symbol's point.
WitnessStalePointsKept ==
    /\ IndexDone
    /\ \E id \in DOMAIN hist.storeAtStart :
         Stale(store[id]) /\ store[id] = hist.storeAtStart[id]
    /\ \E id \in (DOMAIN store) \ (DOMAIN hist.storeAtStart) :
         store[id].payload.function = Zed
    /\ \E id \in DOMAIN hist.storeAtStart :
         /\ store[id].payload.code_snippet = SrcC
         /\ hist.storeAtStart[id].payload.code_snippet /= SrcC

====
